---------------------------- MODULE Spec2Model ----------------------------
(***************************************************************************)
(* preffixer: inject or remove a literal text prefix at the start of the   *)
(* content of every file under a root path whose base name matches a glob. *)
(*                                                                         *)
(* Strings (file contents, prefixes, names, patterns) are sequences of     *)
(* one-character strings.  Two specifications share the definitions that   *)
(* model the code:                                                         *)
(*   MutSpec  injectPrefix / removePrefix called directly, fault free, on  *)
(*            one file, for every content, prefix and line-end flag within *)
(*            the bounds;                                                  *)
(*   Spec     one invocation of the inject or remove command over a small  *)
(*            directory tree, with argument errors, walk errors and        *)
(*            per-file I/O errors.                                         *)
(***************************************************************************)
EXTENDS Naturals, Sequences, FiniteSets

VARIABLES
    fs,      \* path -> content of the entry on disk
    fs0,     \* the content of every entry before the first operation
    inv,     \* the command line of the invocation (Spec), NoInv before it
    options, \* the opts struct parseOpts returned
    pc,      \* position of the command: idle, inject, remove, done (direct
             \* in MutSpec)
    files,   \* the paths getFilePaths returned
    idx,     \* position of the range loop in files (1-based)
    out,     \* what the command printed about files, in order
    calls,   \* history: one record per injectPrefix / removePrefix call
    ret      \* what the command returned: "none" (running), "nil", "error"

vars == <<fs, fs0, inv, options, pc, files, idx, out, calls, ret>>

----------------------------------------------------------------------------
(* Bounds of MutSpec *)

MaxLen == 4

MaxPrefixLen == 2

MaxOps == 3

LF == "\n"

Chars == {"a", "b", LF}

StrUpTo(n) == UNION {[1..k -> Chars] : k \in 0..n}

----------------------------------------------------------------------------
(* strings.HasPrefix, strings.TrimPrefix *)

HasPrefix(s, prefix) ==
    /\ Len(s) >= Len(prefix)
    /\ SubSeq(s, 1, Len(prefix)) = prefix

TrimPrefix(s, prefix) ==
    IF HasPrefix(s, prefix) THEN SubSeq(s, Len(prefix) + 1, Len(s)) ELSE s

(* The I/O faults one call can meet: none, os.ReadFile fails, os.WriteFile *)
(* fails opening the file, os.WriteFile fails after truncating it.         *)
Faults == {"none", "read", "wopen", "wshort"}

(* os.ReadFile: fails on a fault and on a directory. *)
ReadFails(isDir, fault) == isDir \/ fault = "read"

(* os.WriteFile(path, data, perm): the contents the file can be left with, *)
(* and whether an error is returned.  The file is opened O_TRUNC and then  *)
(* written: a failure to open leaves it as it was, a failure after that    *)
(* leaves some leading part of data.                                       *)
WriteFile(old, data, fault) ==
    CASE fault = "wopen"  -> {[err |-> TRUE, content |-> old]}
      [] fault = "wshort" -> {[err |-> TRUE, content |-> SubSeq(data, 1, k)] :
                                 k \in 0..Len(data)}
      [] OTHER            -> {[err |-> FALSE, content |-> data]}

(* A variant of injectPrefix without the "already starts with it" test. *)
injectPrefixNoCheck(content, isDir, prefix, lineEnd, fault) ==
    IF ReadFails(isDir, fault)
    THEN {[ok |-> FALSE, err |-> TRUE, content |-> content, wrote |-> FALSE]}
    ELSE LET newContent ==
                 prefix \o (IF lineEnd THEN <<LF>> ELSE <<>>) \o content
         IN  {[ok |-> ~w.err, err |-> w.err, content |-> w.content,
               wrote |-> TRUE] : w \in WriteFile(content, newContent, fault)}

(* A variant of injectPrefix that tests for prefix + line break when the   *)
(* flag is set.                                                            *)
injectPrefixCheckLineEnd(content, isDir, prefix, lineEnd, fault) ==
    LET full == prefix \o (IF lineEnd THEN <<LF>> ELSE <<>>) IN
    IF ReadFails(isDir, fault)
    THEN {[ok |-> FALSE, err |-> TRUE, content |-> content, wrote |-> FALSE]}
    ELSE IF HasPrefix(content, full)
    THEN {[ok |-> FALSE, err |-> FALSE, content |-> content, wrote |-> FALSE]}
    ELSE {[ok |-> ~w.err, err |-> w.err, content |-> w.content,
           wrote |-> TRUE] : w \in WriteFile(content, full \o content, fault)}

(* injectPrefix(path, prefix, lineEnd): the set of outcomes of one call on *)
(* a file holding content: the bool and the error it returns, the content  *)
(* the file is left with, and whether os.WriteFile was called.             *)
injectPrefix(content, isDir, prefix, lineEnd, fault) ==
    IF ReadFails(isDir, fault)
    THEN {[ok |-> FALSE, err |-> TRUE, content |-> content, wrote |-> FALSE]}
    ELSE IF HasPrefix(content, prefix)
    THEN {[ok |-> FALSE, err |-> FALSE, content |-> content, wrote |-> FALSE]}
    ELSE LET newContent ==
                 prefix \o (IF lineEnd THEN <<LF>> ELSE <<>>) \o content
         IN  {[ok |-> ~w.err, err |-> w.err, content |-> w.content,
               wrote |-> TRUE] : w \in WriteFile(content, newContent, fault)}

(* A variant of removePrefix that strips the line break whatever the flag. *)
removePrefixAlwaysLineEnd(content, isDir, prefix, lineEnd, fault) ==
    IF ReadFails(isDir, fault)
    THEN {[ok |-> FALSE, err |-> TRUE, content |-> content, wrote |-> FALSE]}
    ELSE IF ~HasPrefix(content, prefix)
    THEN {[ok |-> FALSE, err |-> FALSE, content |-> content, wrote |-> FALSE]}
    ELSE LET newStr == TrimPrefix(TrimPrefix(content, prefix), <<LF>>)
         IN  {[ok |-> ~w.err, err |-> w.err, content |-> w.content,
               wrote |-> TRUE] : w \in WriteFile(content, newStr, fault)}

(* A variant of removePrefix that strips every leading occurrence. *)
RECURSIVE TrimAll(_, _)
TrimAll(s, prefix) ==
    IF prefix # <<>> /\ HasPrefix(s, prefix)
    THEN TrimAll(TrimPrefix(s, prefix), prefix)
    ELSE s

removePrefixAll(content, isDir, prefix, lineEnd, fault) ==
    IF ReadFails(isDir, fault)
    THEN {[ok |-> FALSE, err |-> TRUE, content |-> content, wrote |-> FALSE]}
    ELSE IF ~HasPrefix(content, prefix)
    THEN {[ok |-> FALSE, err |-> FALSE, content |-> content, wrote |-> FALSE]}
    ELSE LET trimmed == TrimAll(content, prefix)
             newStr == IF lineEnd THEN TrimPrefix(trimmed, <<LF>>) ELSE trimmed
         IN  {[ok |-> ~w.err, err |-> w.err, content |-> w.content,
               wrote |-> TRUE] : w \in WriteFile(content, newStr, fault)}

(* removePrefix(path, prefix, lineEnd): the set of outcomes of one call. *)
removePrefix(content, isDir, prefix, lineEnd, fault) ==
    IF ReadFails(isDir, fault)
    THEN {[ok |-> FALSE, err |-> TRUE, content |-> content, wrote |-> FALSE]}
    ELSE IF ~HasPrefix(content, prefix)
    THEN {[ok |-> FALSE, err |-> FALSE, content |-> content, wrote |-> FALSE]}
    ELSE LET trimmed == TrimPrefix(content, prefix)
             newStr == IF lineEnd THEN TrimPrefix(trimmed, <<LF>>) ELSE trimmed
         IN  {[ok |-> ~w.err, err |-> w.err, content |-> w.content,
               wrote |-> TRUE] : w \in WriteFile(content, newStr, fault)}

(* The history record of one call. *)
Call(path, op, before, o) ==
    [path |-> path, op |-> op, before |-> before, after |-> o.content,
     ok |-> o.ok, err |-> o.err, wrote |-> o.wrote]

----------------------------------------------------------------------------
(* MutSpec: direct, fault-free calls on one file *)

(* No command line: the calls are made directly. *)
NoInv == [cmd |-> "", args |-> <<>>, prefix |-> <<>>, prefixFile |-> "",
          pattern |-> <<>>, withLineEnd |-> FALSE, walkErrAt |-> 0]

MutFile == "f"

MutInit ==
    /\ \E c \in StrUpTo(MaxLen) : fs = [p \in {MutFile} |-> c]
    /\ fs0 = fs
    /\ \E p \in StrUpTo(MaxPrefixLen) \ {<<>>}, e \in BOOLEAN :
           options = [rootPath |-> "direct", prefix |-> p, pattern |-> <<"*">>,
                      withLineEnd |-> e]
    /\ inv = NoInv
    /\ pc = "direct"
    /\ files = <<>>
    /\ idx = 0
    /\ out = <<>>
    /\ calls = <<>>
    /\ ret = "none"

MutInject ==
    /\ pc = "direct"
    /\ Len(calls) < MaxOps
    /\ \E o \in injectPrefix(fs[MutFile], FALSE, options.prefix,
                             options.withLineEnd, "none") :
           /\ fs' = [fs EXCEPT ![MutFile] = o.content]
           /\ calls' = Append(calls, Call(MutFile, "inject", fs[MutFile], o))
    /\ UNCHANGED <<fs0, inv, options, pc, files, idx, out, ret>>

MutRemove ==
    /\ pc = "direct"
    /\ Len(calls) < MaxOps
    /\ \E o \in removePrefix(fs[MutFile], FALSE, options.prefix,
                             options.withLineEnd, "none") :
           /\ fs' = [fs EXCEPT ![MutFile] = o.content]
           /\ calls' = Append(calls, Call(MutFile, "remove", fs[MutFile], o))
    /\ UNCHANGED <<fs0, inv, options, pc, files, idx, out, ret>>

MutNext == MutInject \/ MutRemove

MutSpec == MutInit /\ [][MutNext]_vars


----------------------------------------------------------------------------
(* Spec: one invocation of the inject or the remove command *)

(* The directory tree under the root, in the order filepath.Walk visits    *)
(* it (lexical, depth first).  Names are sequences of characters.  The     *)
(* directory d.t has a name the pattern *.t matches.                        *)
Tree ==
    << [path |-> << <<"r">> >>,                                isDir |-> TRUE],
       [path |-> << <<"r">>, <<"a", ".", "t">> >>,             isDir |-> FALSE],
       [path |-> << <<"r">>, <<"b", ".", "j">> >>,             isDir |-> FALSE],
       [path |-> << <<"r">>, <<"d", ".", "t">> >>,             isDir |-> TRUE],
       [path |-> << <<"r">>, <<"d", ".", "t">>, <<"c", ".", "t">> >>,
                                                               isDir |-> FALSE] >>

Paths == 1..Len(Tree)

(* The contents a file of the tree starts with. *)
FileContents == {<<"x">>, <<"a", "x">>, <<"a", LF, "x">>}

(* The command lines tried. *)
ArgLists == {<<>>, <<"">>, <<"r">>}

PrefixFlags == {<<>>, <<"a">>}

PrefixFileFlags == {"", "pf", "empty", "missing"}

PatternFlags == {<<"*">>, <<"*", ".", "t">>, <<"?", ".", "j">>, <<"z">>}

(* The readable prefix files and their contents. *)
PrefixFiles == [n \in {"pf", "empty"} |->
                   IF n = "pf" THEN <<"a", LF>> ELSE <<>>]

(* Where filepath.Walk meets an error: 0 nowhere, 1 at the root (missing   *)
(* or unreadable), 4 at the directory d.t.                                 *)
WalkErrors == {0, 1, 4}

(* filepath.Base *)
Base(p) == Tree[p].path[Len(Tree[p].path)]

(* filepath.Match for patterns of literal characters, ? and *. *)
RECURSIVE Match(_, _)
Match(pattern, name) ==
    IF pattern = <<>> THEN name = <<>>
    ELSE IF Head(pattern) = "*"
    THEN \/ Match(Tail(pattern), name)
         \/ name # <<>> /\ Match(pattern, Tail(name))
    ELSE /\ name # <<>>
         /\ Head(pattern) = "?" \/ Head(pattern) = Head(name)
         /\ Match(Tail(pattern), Tail(name))

(* A variant of walkMatch that does not skip directories. *)
walkMatchNoDirCheck(root, pattern, walkErrAt) ==
    IF walkErrAt # 0
    THEN [err |-> TRUE, matches |-> <<>>]
    ELSE [err |-> FALSE,
          matches |-> SelectSeq([p \in Paths |-> p],
                                LAMBDA p : Match(pattern, Base(p)))]

(* walkMatch(root, pattern): the walk function returns the first error it  *)
(* is given, which ends the walk; it skips directories and appends the     *)
(* paths whose base name matches.                                          *)
walkMatch(root, pattern, walkErrAt) ==
    IF walkErrAt # 0
    THEN [err |-> TRUE, matches |-> <<>>]
    ELSE [err |-> FALSE,
          matches |-> SelectSeq([p \in Paths |-> p],
                                LAMBDA p : /\ ~Tree[p].isDir
                                           /\ Match(pattern, Base(p)))]

(* getFilePaths(rootPath, pattern): the files, and what it prints. *)
getFilePaths(rootPath, pattern, walkErrAt) ==
    LET w == walkMatch(rootPath, pattern, walkErrAt) IN
    IF w.err THEN [err |-> TRUE, files |-> <<>>, out |-> <<>>]
    ELSE IF Len(w.matches) = 0
    THEN [err |-> FALSE, files |-> <<>>,
          out |-> <<[msg |-> "no files"]>>]
    ELSE [err |-> FALSE, files |-> w.matches,
          out |-> <<[msg |-> "found", count |-> Len(w.matches)]>> \o
                  [k \in 1..Len(w.matches) |->
                      [msg |-> "item", path |-> w.matches[k]]]]

(* loadFile(filePath) *)
loadFile(filePath) ==
    IF filePath = "" THEN [err |-> FALSE, content |-> <<>>]
    ELSE IF filePath \notin DOMAIN PrefixFiles
    THEN [err |-> TRUE, content |-> <<>>]
    ELSE [err |-> FALSE, content |-> PrefixFiles[filePath]]

NoOpts == [rootPath |-> "", prefix |-> <<>>, pattern |-> <<>>,
           withLineEnd |-> FALSE]

(* A variant of parseOpts that accepts an empty prefix. *)
parseOptsNoEmptyCheck(args, prefixFlag, prefixFileFlag, patternFlag, e) ==
    IF Len(args) < 1 THEN [err |-> TRUE, opts |-> NoOpts]
    ELSE IF args[1] = "" THEN [err |-> TRUE, opts |-> NoOpts]
    ELSE LET l == IF prefixFlag = <<>> THEN loadFile(prefixFileFlag)
                  ELSE [err |-> FALSE, content |-> prefixFlag]
         IN  IF l.err THEN [err |-> TRUE, opts |-> NoOpts]
             ELSE [err |-> FALSE,
                   opts |-> [rootPath |-> args[1], prefix |-> l.content,
                             pattern |-> patternFlag, withLineEnd |-> e]]

(* parseOpts(cmd, args): the flags are those of the command line.  (cobra  *)
(* itself refuses an empty argument list before RunE, with an error too.)  *)
parseOpts(args, prefixFlag, prefixFileFlag, patternFlag, e) ==
    IF Len(args) < 1 THEN [err |-> TRUE, opts |-> NoOpts]
    ELSE IF args[1] = "" THEN [err |-> TRUE, opts |-> NoOpts]
    ELSE LET l == IF prefixFlag = <<>> THEN loadFile(prefixFileFlag)
                  ELSE [err |-> FALSE, content |-> prefixFlag]
         IN  IF l.err THEN [err |-> TRUE, opts |-> NoOpts]
             ELSE IF l.content = <<>> THEN [err |-> TRUE, opts |-> NoOpts]
             ELSE [err |-> FALSE,
                   opts |-> [rootPath |-> args[1], prefix |-> l.content,
                             pattern |-> patternFlag, withLineEnd |-> e]]

Init ==
    /\ fs \in [Paths -> FileContents \cup {<<>>}]
    /\ \A p \in Paths : (fs[p] = <<>>) <=> Tree[p].isDir
    /\ fs0 = fs
    /\ inv = NoInv
    /\ options = NoOpts
    /\ pc = "idle"
    /\ files = <<>>
    /\ idx = 0
    /\ out = <<>>
    /\ calls = <<>>
    /\ ret = "none"

(* The RunE of a command up to its range loop: parseOpts, then the head of *)
(* injectCmd / removeCmd (getFilePaths).                                   *)
Start(cmd, args, prefixFlag, prefixFileFlag, patternFlag, e, walkErrAt) ==
    LET po == parseOpts(args, prefixFlag, prefixFileFlag, patternFlag, e)
        gf == getFilePaths(po.opts.rootPath, po.opts.pattern, walkErrAt)
    IN  /\ pc = "idle"
        /\ inv' = [cmd |-> cmd, args |-> args, prefix |-> prefixFlag,
                   prefixFile |-> prefixFileFlag, pattern |-> patternFlag,
                   withLineEnd |-> e, walkErrAt |-> walkErrAt]
        /\ IF po.err
           THEN /\ pc' = "done"
                /\ ret' = "error"
                /\ UNCHANGED <<options, files, idx, out>>
           ELSE IF gf.err
           THEN /\ pc' = "done"
                /\ ret' = "error"
                /\ options' = po.opts
                /\ UNCHANGED <<files, idx, out>>
           ELSE /\ pc' = cmd
                /\ ret' = "none"
                /\ options' = po.opts
                /\ files' = gf.files
                /\ idx' = 1
                /\ out' = gf.out
        /\ UNCHANGED <<fs, fs0, calls>>

InjectCommand ==
    \E args \in ArgLists, prefixFlag \in PrefixFlags,
       prefixFileFlag \in PrefixFileFlags, patternFlag \in PatternFlags,
       e \in BOOLEAN, walkErrAt \in WalkErrors :
        Start("inject", args, prefixFlag, prefixFileFlag, patternFlag, e,
              walkErrAt)

RemoveCommand ==
    \E args \in ArgLists, prefixFlag \in PrefixFlags,
       prefixFileFlag \in PrefixFileFlags, patternFlag \in PatternFlags,
       e \in BOOLEAN, walkErrAt \in WalkErrors :
        Start("remove", args, prefixFlag, prefixFileFlag, patternFlag, e,
              walkErrAt)

(* A variant of the loop of injectCmd that returns the first error. *)
InjectLoopAbort ==
    /\ pc = "inject"
    /\ idx <= Len(files)
    /\ \E fault \in Faults :
        \E o \in injectPrefix(fs[files[idx]], Tree[files[idx]].isDir,
                              options.prefix, options.withLineEnd, fault) :
            /\ fs' = [fs EXCEPT ![files[idx]] = o.content]
            /\ calls' = Append(calls,
                               Call(files[idx], "inject", fs[files[idx]], o))
            /\ out' = out \o
                   (IF o.err THEN <<[msg |-> "error", path |-> files[idx]]>>
                    ELSE IF ~o.ok
                    THEN <<[msg |-> "unchanged", path |-> files[idx]]>>
                    ELSE <<>>)
            /\ IF o.err
               THEN pc' = "done" /\ ret' = "error" /\ idx' = idx
               ELSE pc' = pc /\ ret' = ret /\ idx' = idx + 1
    /\ UNCHANGED <<fs0, inv, options, files>>

(* One iteration of the range loop of injectCmd. *)
InjectLoop ==
    /\ pc = "inject"
    /\ idx <= Len(files)
    /\ \E fault \in Faults :
        \E o \in injectPrefix(fs[files[idx]], Tree[files[idx]].isDir,
                              options.prefix, options.withLineEnd, fault) :
            /\ fs' = [fs EXCEPT ![files[idx]] = o.content]
            /\ calls' = Append(calls,
                               Call(files[idx], "inject", fs[files[idx]], o))
            /\ out' = out \o
                   (IF o.err THEN <<[msg |-> "error", path |-> files[idx]]>>
                    ELSE <<>>) \o
                   (IF ~o.ok THEN <<[msg |-> "unchanged", path |-> files[idx]]>>
                    ELSE <<>>)
    /\ idx' = idx + 1
    /\ UNCHANGED <<fs0, inv, options, pc, files, ret>>

(* The end of injectCmd: the loop is over, it returns nil. *)
InjectReturn ==
    /\ pc = "inject"
    /\ idx > Len(files)
    /\ pc' = "done"
    /\ ret' = "nil"
    /\ UNCHANGED <<fs, fs0, inv, options, files, idx, out, calls>>

(* One iteration of the range loop of removeCmd. *)
RemoveLoop ==
    /\ pc = "remove"
    /\ idx <= Len(files)
    /\ \E fault \in Faults :
        \E o \in removePrefix(fs[files[idx]], Tree[files[idx]].isDir,
                              options.prefix, options.withLineEnd, fault) :
            /\ fs' = [fs EXCEPT ![files[idx]] = o.content]
            /\ calls' = Append(calls,
                               Call(files[idx], "remove", fs[files[idx]], o))
            /\ out' = out \o
                   (IF o.err THEN <<[msg |-> "error", path |-> files[idx]]>>
                    ELSE <<>>) \o
                   (IF ~o.ok THEN <<[msg |-> "unchanged", path |-> files[idx]]>>
                    ELSE <<>>)
    /\ idx' = idx + 1
    /\ UNCHANGED <<fs0, inv, options, pc, files, ret>>

(* The end of removeCmd. *)
RemoveReturn ==
    /\ pc = "remove"
    /\ idx > Len(files)
    /\ pc' = "done"
    /\ ret' = "nil"
    /\ UNCHANGED <<fs, fs0, inv, options, files, idx, out, calls>>

Next ==
    \/ InjectCommand
    \/ InjectLoop
    \/ InjectReturn
    \/ RemoveCommand
    \/ RemoveLoop
    \/ RemoveReturn

Spec == Init /\ [][Next]_vars

----------------------------------------------------------------------------
(* Properties of injectPrefix and removePrefix, checked under MutSpec.     *)
(* They are stated character by character on the recorded calls, not with  *)
(* HasPrefix and TrimPrefix.                                               *)

P == options.prefix

Flag == options.withLineEnd

LineBreaks == IF Flag THEN 1 ELSE 0

StartsWith(s, p) == Len(p) <= Len(s) /\ \A k \in 1..Len(p) : s[k] = p[k]

Pairs == {i \in 1..Len(calls) : i + 1 <= Len(calls)}

Str_hello == <<"h", "e", "l", "l", "o">>

Str_PFX == <<"P", "F", "X">>

(* C1: two injectPrefix calls in a row leave the content the first call    *)
(* left; the second returns false and does not write.                      *)
C1_InjectIdempotent ==
    \A i \in Pairs :
        (calls[i].op = "inject" /\ calls[i + 1].op = "inject") =>
            /\ calls[i + 1].after = calls[i].after
            /\ ~calls[i + 1].ok
            /\ ~calls[i + 1].err
            /\ ~calls[i + 1].wrote

C1_Witness ==
    \E i \in Pairs :
        /\ calls[i].op = "inject" /\ calls[i].ok /\ Flag
        /\ calls[i + 1].op = "inject"

(* The content begins with the prefix and, once the prefix (and, with the  *)
(* flag set, one line break that follows it) is taken off, begins with the *)
(* prefix again.                                                           *)
StartsTwice(s) ==
    /\ StartsWith(s, P)
    /\ LET n == Len(P) +
                (IF Flag /\ Len(s) > Len(P) /\ s[Len(P) + 1] = LF THEN 1 ELSE 0)
       IN  /\ Len(s) >= n + Len(P)
           /\ \A k \in 1..Len(P) : s[n + k] = P[k]

(* C2 as claimed: two removePrefix calls in a row leave the content the    *)
(* first call left, for every content.                                     *)
C2_RemoveIdempotent_Claimed ==
    \A i \in Pairs :
        (calls[i].op = "remove" /\ calls[i + 1].op = "remove") =>
            calls[i + 1].after = calls[i].after

(* C2 amended: two removePrefix calls in a row leave the content the first *)
(* call left exactly when the content does not begin with the prefix       *)
(* twice; when it does, the second call strips the second occurrence.      *)
C2_RemoveIdempotent ==
    \A i \in Pairs :
        (calls[i].op = "remove" /\ calls[i + 1].op = "remove") =>
            /\ (calls[i + 1].after = calls[i].after) <=>
                   ~StartsTwice(calls[i].before)
            /\ StartsTwice(calls[i].before) =>
                   /\ calls[i + 1].ok
                   /\ Len(calls[i + 1].after) <= Len(calls[i].after) - Len(P)

C2_Witness ==
    \E i \in Pairs :
        /\ calls[i].op = "remove" /\ calls[i].ok
        /\ calls[i + 1].op = "remove" /\ ~calls[i + 1].ok
        /\ Flag /\ calls[i].after # <<>>

(* C3: injectPrefix on a content that does not start with the prefix,      *)
(* followed by removePrefix with the same flag, restores the content.      *)
C3_RoundTrip ==
    \A i \in Pairs :
        (/\ calls[i].op = "inject"
         /\ ~StartsWith(calls[i].before, P)
         /\ calls[i + 1].op = "remove") =>
            /\ calls[i].ok
            /\ calls[i + 1].ok
            /\ calls[i + 1].after = calls[i].before

C3_Witness ==
    \E i \in Pairs :
        /\ calls[i].op = "inject" /\ calls[i].ok
        /\ calls[i + 1].op = "remove"
        /\ ~Flag
        /\ Len(calls[i].before) > 0 /\ calls[i].before[1] = LF

(* C4: injectPrefix leaves a file that starts with the prefix alone and    *)
(* returns false; otherwise the file holds the prefix, one line break iff  *)
(* the flag is set, then the old content, and it returns true.             *)
InjectReference(c) ==
    IF StartsWith(c.before, P)
    THEN c.after = c.before /\ ~c.ok /\ ~c.wrote /\ ~c.err
    ELSE /\ c.ok /\ c.wrote /\ ~c.err
         /\ Len(c.after) = Len(P) + LineBreaks + Len(c.before)
         /\ \A k \in 1..Len(P) : c.after[k] = P[k]
         /\ Flag => c.after[Len(P) + 1] = LF
         /\ \A k \in 1..Len(c.before) :
                c.after[Len(P) + LineBreaks + k] = c.before[k]

InjectExamples ==
    /\ injectPrefix(Str_hello, FALSE, Str_PFX, FALSE, "none") =
           {[ok |-> TRUE, err |-> FALSE, wrote |-> TRUE,
             content |-> <<"P", "F", "X", "h", "e", "l", "l", "o">>]}
    /\ injectPrefix(<<"x">>, FALSE, <<"A", LF, "B", LF>>, TRUE, "none") =
           {[ok |-> TRUE, err |-> FALSE, wrote |-> TRUE,
             content |-> <<"A", LF, "B", LF, LF, "x">>]}

C4_InjectReference ==
    /\ \A i \in 1..Len(calls) :
           calls[i].op = "inject" => InjectReference(calls[i])
    /\ InjectExamples

(* A file that starts with the prefix followed by something other than a   *)
(* line break is skipped although the flag is set.                         *)
C4_Witness ==
    \E i \in 1..Len(calls) :
        /\ calls[i].op = "inject" /\ ~calls[i].ok /\ Flag
        /\ Len(calls[i].before) > Len(P)
        /\ calls[i].before[Len(P) + 1] # LF

(* C5: removePrefix leaves a file that does not start with the prefix      *)
(* alone and returns false; otherwise it strips one occurrence of the      *)
(* prefix, then one line break if the flag is set and one follows, writes  *)
(* the rest and returns true.                                              *)
RemoveReference(c) ==
    IF ~StartsWith(c.before, P)
    THEN c.after = c.before /\ ~c.ok /\ ~c.wrote /\ ~c.err
    ELSE LET n == Len(P) +
                  (IF /\ Flag
                      /\ Len(c.before) > Len(P)
                      /\ c.before[Len(P) + 1] = LF
                   THEN 1 ELSE 0)
         IN  /\ c.ok /\ c.wrote /\ ~c.err
             /\ Len(c.after) = Len(c.before) - n
             /\ \A k \in 1..Len(c.after) : c.after[k] = c.before[n + k]

RemoveExamples ==
    /\ removePrefix(Str_PFX \o <<LF>> \o Str_hello, FALSE, Str_PFX, TRUE,
                    "none") =
           {[ok |-> TRUE, err |-> FALSE, wrote |-> TRUE, content |-> Str_hello]}
    /\ removePrefix(Str_PFX \o Str_PFX \o Str_hello, FALSE, Str_PFX, FALSE,
                    "none") =
           {[ok |-> TRUE, err |-> FALSE, wrote |-> TRUE,
             content |-> Str_PFX \o Str_hello]}

C5_RemoveReference ==
    /\ \A i \in 1..Len(calls) :
           calls[i].op = "remove" => RemoveReference(calls[i])
    /\ RemoveExamples

(* The file begins with the prefix repeated and only one copy is removed. *)
C5_Witness ==
    \E i \in 1..Len(calls) :
        /\ calls[i].op = "remove" /\ calls[i].ok
        /\ StartsWith(calls[i].before, P \o P)
        /\ StartsWith(calls[i].after, P)

(* C10: when the original content C does not start with the prefix, the    *)
(* content is always C or prefix + (line break iff flag) + C: the latter    *)
(* after an inject, C after a remove.                                      *)
Injected(c) == P \o (IF Flag THEN <<LF>> ELSE <<>>) \o c

C10_TwoState ==
    ~StartsWith(fs0[MutFile], P) =>
        /\ fs[MutFile] \in {fs0[MutFile], Injected(fs0[MutFile])}
        /\ calls # <<>> =>
               IF calls[Len(calls)].op = "inject"
               THEN fs[MutFile] = Injected(fs0[MutFile])
               ELSE fs[MutFile] = fs0[MutFile]

C10_Witness ==
    /\ ~StartsWith(fs0[MutFile], P)
    /\ Len(calls) = 3
    /\ calls[1].op = "inject" /\ calls[2].op = "inject"
    /\ calls[3].op = "remove"
    /\ fs[MutFile] = fs0[MutFile]
    /\ fs0[MutFile] # <<>>

----------------------------------------------------------------------------
(* Properties of the commands, checked under Spec *)

Called == {calls[k].path : k \in 1..Len(calls)}

Written == {calls[k].path : k \in {j \in 1..Len(calls) : calls[j].wrote}}

Selected(p) == ~Tree[p].isDir /\ Match(inv.pattern, Base(p))

(* C6: injectPrefix / removePrefix are applied only to regular files whose *)
(* base name matches the pattern; every other file and every directory     *)
(* keeps its content.  With the pattern *.t only a.t and d.t/c.t are       *)
(* touched, not b.j and not the directory d.t.                             *)
C6_SelectiveMatching ==
    /\ \A p \in Paths :
           ~Selected(p) => fs[p] = fs0[p] /\ p \notin Called
    /\ inv.pattern = <<"*", ".", "t">> => Called \subseteq {2, 5}
    /\ inv.pattern = <<"?", ".", "j">> => Called \subseteq {3}
    /\ inv.pattern = <<"z">> => Called = {}
    /\ (pc = "done" /\ ret = "nil") => Called = {p \in Paths : Selected(p)}

C6_Witness ==
    /\ pc = "done" /\ ret = "nil"
    /\ inv.pattern = <<"*", ".", "t">>
    /\ fs[2] # fs0[2] /\ fs[5] # fs0[5]
    /\ fs[3] = fs0[3]

(* C7: an error of injectPrefix / removePrefix on one file does not end    *)
(* the run: the files are processed in list order, each exactly once,      *)
(* also after a call that failed, and the command returns nil.             *)
C7_ErrorsDoNotAbort ==
    /\ pc \in {"inject", "remove"} =>
           /\ ret = "none"
           /\ Len(calls) = idx - 1
           /\ idx <= Len(files) + 1
    /\ \A k \in 1..Len(calls) : calls[k].path = files[k]
    /\ \A j, k \in 1..Len(files) : files[j] = files[k] => j = k
    /\ (pc = "done" /\ calls # <<>>) => ret = "nil"
    /\ (pc = "done" /\ ret = "nil") => Len(calls) = Len(files)

(* The first file failed and the two files after it were processed. *)
C7_Witness ==
    /\ pc = "done" /\ ret = "nil"
    /\ Len(files) = 3 /\ Len(calls) = 3
    /\ calls[1].err
    /\ calls[2].ok
    /\ calls[3].err /\ calls[3].wrote

(* The command line fails validation or the walk fails. *)
MustFail ==
    \/ Len(inv.args) < 1
    \/ inv.args[1] = ""
    \/ inv.prefix = <<>> /\ inv.prefixFile \in {"", "empty", "missing"}
    \/ inv.walkErrAt # 0

(* C8: when the root path argument is missing or empty, no prefix is given *)
(* by --prefix or --prefix-file, the prefix file cannot be read, or the    *)
(* walk fails, the command returns an error and has written no file; and   *)
(* a command that returns an error has written no file.                    *)
C8_AbortBeforeMutation ==
    /\ (pc # "idle" /\ MustFail) =>
           /\ pc = "done" /\ ret = "error"
           /\ fs = fs0 /\ calls = <<>>
    /\ ret = "error" => fs = fs0 /\ calls = <<>>

C8_Witness ==
    /\ pc = "done" /\ ret = "error"
    /\ inv.args = <<"r">> /\ inv.prefix = <<>> /\ inv.prefixFile = "pf"
    /\ inv.walkErrAt = 4
    /\ inv.pattern = <<"*">>
    /\ \E p \in Paths : ~HasPrefix(fs[p], <<"a", LF>>) /\ ~Tree[p].isDir

Reports(p, msg) ==
    Cardinality({m \in 1..Len(out) : out[m].msg = msg /\ out[m].path = p})

(* C9 as claimed: every processed file gets exactly one of the three       *)
(* outcomes: changed (no notice), unchanged (the "already has" / "did not  *)
(* have" notice) or failed (the error line); a file whose call failed gets *)
(* the error line and not the notice.                                      *)
C9_OneOutcome_Claimed ==
    \A k \in 1..Len(calls) :
        LET c == calls[k] IN
        /\ Reports(c.path, "error") = (IF c.err THEN 1 ELSE 0)
        /\ Reports(c.path, "unchanged") = (IF ~c.err /\ ~c.ok THEN 1 ELSE 0)

=============================================================================
